---- MODULE Spec2Model ----
(***************************************************************************)
(* Model of tools/generate_emergency_dispatch_report.py: the formula       *)
(* renderer render_formula and the report assembler create_report.         *)
(*                                                                         *)
(* The script is sequential.  pc is the position of the single thread of   *)
(* control inside create_report (and inside the render_formula call it     *)
(* makes); every call into the drawing, typesetting and document libraries *)
(* that the claims are about either succeeds or raises, and that outcome   *)
(* is the nondeterministic input of the action.                            *)
(***************************************************************************)
EXTENDS Integers, Sequences, FiniteSets, TLC

VARIABLES
    pc,             \* position in create_report / render_formula
    idx,            \* loop index: paragraph, generator, section or formula number
    doc,            \* the Document under assembly: sequence of appended elements
    imgs,           \* the list imgs of (caption, path) pairs
    files,          \* content of each file of IMG_DIR
    calls,          \* diagram generators invoked so far in this run, in order
    genRaised,      \* generators whose call raised in this run
    log,            \* [WARN] lines printed by render_formula in this run
    attempts,       \* primary rendering attempts per formula in this run
    primaryRaised,  \* formulas whose primary rendering raised in this run
    retPath,        \* path1 / path2: value returned by render_formula
    insertRaised,   \* paths whose doc.add_picture call raised in this run
    escaped,        \* the call whose exception left create_report, or "none"
    saves,          \* number of doc.save calls in this run
    savedDoc,       \* content written to OUT_DOCX by this run
    printed,        \* completion lines printed in this run
    runNo,          \* number of the current run of the script
    prevStructure,  \* structure of the document saved by the previous run
    rfPath          \* render_formula's local variable path

vars == <<pc, idx, doc, imgs, files, calls, genRaised, log, attempts,
          primaryRaised, retPath, insertRaised, escaped, saves, savedDoc,
          printed, runNo, prevStructure, rfPath>>

\* ------------------------------------------------------------------------
\* Bounds and program constants
\* ------------------------------------------------------------------------
MaxRuns == 2

NumFigs == 9

NumFormulas == 2

NumParts == 26

PartsLen == 2389

MinLen == 4800

IMG_DIR == "report_images"

NoPath == <<"", "">>

\* ------------------------------------------------------------------------
\* File names, paths, captions
\* ------------------------------------------------------------------------
FigFname ==
    << "fig1_system_architecture.png", "fig2_call_flow.png",
       "fig3_task_allocation.png", "fig4_gis_heatmap.png",
       "fig5_routing_sequence.png", "fig6_gantt.png", "fig7_hotspot.png",
       "fig8_deployment.png", "fig9_use_case.png" >>

FormulaFname == << "formula_obj.png", "formula_time.png" >>

Fnames == {FigFname[k] : k \in 1..NumFigs} \cup {FormulaFname[k] : k \in 1..NumFormulas}

\* os.path.join(IMG_DIR, fname)
JoinPath(fname) == <<IMG_DIR, fname>>

\* A caption "图k ... / English ..." as its pieces around the separator " / ".
FigCaption(k) == << <<"cn", k>>, <<"en", k>> >>

\* Variant of SplitFirst: the piece after the separator is taken.
SplitSecond(caption) == << caption[2] >>

\* caption.split(" / ")[0]
SplitFirst(caption) == << caption[1] >>

FormulaCaption(k) == << <<"formula", k>> >>

ValidImage == {"diagram", "mathtext", "placeholder"}

\* ------------------------------------------------------------------------
\* Document elements
\* ------------------------------------------------------------------------
Element(kind, text, path) == [kind |-> kind, text |-> text, path |-> path]

Title == Element("title", << <<"title", 0>> >>, NoPath)

AuthorLine == Element("paragraph", << <<"author", 0>> >>, NoPath)

ReqHeading == Element("heading1", << <<"requirements", 0>> >>, NoPath)

FigsHeading == Element("heading1", << <<"figures", 0>> >>, NoPath)

TextParagraph(n) == Element("paragraph", << <<"para", n>> >>, NoPath)

PageBreak == Element("pagebreak", <<>>, NoPath)

EntryHeading(caption) == Element("heading3", SplitFirst(caption), NoPath)

Picture(path) == Element("picture", <<>>, path)

Placeholder(path) == Element("placeholder", << <<"cannot-insert", 0>> >>, path)

CaptionPara(caption) == Element("caption", caption, NoPath)

\* generate_long_content: the joined parts, extended by one block when short;
\* create_report splits the text on blank lines, one paragraph per piece.
NumParagraphs == NumParts + (IF PartsLen < MinLen THEN 1 ELSE 0)


\* Variant of ImgsStatement: the statements of fig8 and fig9 are exchanged.
ImgsStatementSwapped(k) ==
    LET j == IF k = NumFigs THEN NumFigs - 1
             ELSE IF k = NumFigs - 1 THEN NumFigs ELSE k
    IN  [caption |-> FigCaption(j), fname |-> FigFname[j], gen |-> j]

\* The k-th statement of the block that builds imgs: its caption, the file it
\* asks for and the generator it calls (generators are numbered as figures).
ImgsStatement(k) == [caption |-> FigCaption(k), fname |-> FigFname[k], gen |-> k]

\* Kind of an element as far as the structure of the document goes: the
\* picture and the paragraph standing in for it fill the same slot.
Class(e) == IF e.kind \in {"picture", "placeholder"} THEN "figure" ELSE e.kind

Structure(d) == [n \in 1..Len(d) |-> Class(d[n])]

\* Variant of TryAddPicture: the exception is swallowed, nothing is appended.
TryAddPictureNoPlaceholder(d, path, ok) ==
    IF ok THEN Append(d, Picture(path)) ELSE d

\* Variant of TryAddPicture: on failure the section's heading is taken back
\* and the placeholder stands in its place.
TryAddPictureRollback(d, path, ok) ==
    IF ok THEN Append(d, Picture(path))
    ELSE Append(SubSeq(d, 1, Len(d) - 1), Placeholder(path))

\* try: doc.add_picture(path) / except Exception: doc.add_paragraph(...)
TryAddPicture(d, path, ok) ==
    IF ok THEN Append(d, Picture(path)) ELSE Append(d, Placeholder(path))

\* doc.add_picture outside any try: the element appended when it succeeds.
AddPicture(d, path) == Append(d, Picture(path))

\* Outcomes doc.add_picture can have on a path: it raises on a file that is
\* missing or no image, and reading an image can fail as any I/O can.
PictureOutcomes(path) ==
    IF files[path[2]] \in ValidImage THEN BOOLEAN ELSE {FALSE}

\* ------------------------------------------------------------------------
\* Initial state: Document() has been constructed, IMG_DIR exists and is empty
\* ------------------------------------------------------------------------
Init ==
    /\ pc = "title"
    /\ idx = 0
    /\ doc = <<>>
    /\ imgs = <<>>
    /\ files = [f \in Fnames |-> "absent"]
    /\ calls = <<>>
    /\ genRaised = {}
    /\ log = <<>>
    /\ attempts = [k \in 1..NumFormulas |-> 0]
    /\ primaryRaised = {}
    /\ retPath = [k \in 1..NumFormulas |-> NoPath]
    /\ insertRaised = {}
    /\ escaped = "none"
    /\ saves = 0
    /\ savedDoc = <<>>
    /\ printed = 0
    /\ runNo = 1
    /\ prevStructure = <<>>
    /\ rfPath = NoPath

\* ------------------------------------------------------------------------
\* create_report: title block and text section
\* ------------------------------------------------------------------------
AddTitle ==
    /\ pc = "title"
    /\ doc' = Append(doc, Title)
    /\ pc' = "author"
    /\ UNCHANGED <<idx, imgs, files, calls, genRaised, log, attempts,
                   primaryRaised, retPath, insertRaised, escaped, saves,
                   savedDoc, printed, runNo, prevStructure, rfPath>>

AddAuthorLine ==
    /\ pc = "author"
    /\ doc' = Append(doc, AuthorLine)
    /\ pc' = "req_heading"
    /\ UNCHANGED <<idx, imgs, files, calls, genRaised, log, attempts,
                   primaryRaised, retPath, insertRaised, escaped, saves,
                   savedDoc, printed, runNo, prevStructure, rfPath>>

AddReqHeading ==
    /\ pc = "req_heading"
    /\ doc' = Append(doc, ReqHeading)
    /\ idx' = 1
    /\ pc' = "paragraphs"
    /\ UNCHANGED <<imgs, files, calls, genRaised, log, attempts,
                   primaryRaised, retPath, insertRaised, escaped, saves,
                   savedDoc, printed, runNo, prevStructure, rfPath>>

AddParagraph ==
    /\ pc = "paragraphs"
    /\ idx <= NumParagraphs
    /\ doc' = Append(doc, TextParagraph(idx))
    /\ idx' = idx + 1
    /\ pc' = IF idx < NumParagraphs THEN "paragraphs" ELSE "pagebreak"
    /\ UNCHANGED <<imgs, files, calls, genRaised, log, attempts,
                   primaryRaised, retPath, insertRaised, escaped, saves,
                   savedDoc, printed, runNo, prevStructure, rfPath>>

AddPageBreak ==
    /\ pc = "pagebreak"
    /\ doc' = Append(doc, PageBreak)
    /\ pc' = "figs_heading"
    /\ UNCHANGED <<idx, imgs, files, calls, genRaised, log, attempts,
                   primaryRaised, retPath, insertRaised, escaped, saves,
                   savedDoc, printed, runNo, prevStructure, rfPath>>

AddFigsHeading ==
    /\ pc = "figs_heading"
    /\ doc' = Append(doc, FigsHeading)
    /\ idx' = 1
    /\ pc' = "generate"
    /\ UNCHANGED <<imgs, files, calls, genRaised, log, attempts,
                   primaryRaised, retPath, insertRaised, escaped, saves,
                   savedDoc, printed, runNo, prevStructure, rfPath>>

\* ------------------------------------------------------------------------
\* create_report: imgs.append((caption, draw_xxx(fname))), nine statements
\* ------------------------------------------------------------------------
\* The generator saves its image and returns the path, or raises; the call
\* is not inside any try, so its exception leaves create_report.
GenerateDiagram ==
    /\ pc = "generate"
    /\ idx <= NumFigs
    /\ LET st == ImgsStatement(idx) IN
       /\ calls' = Append(calls, st.gen)
       /\ \E ok \in BOOLEAN :
            IF ok
            THEN /\ files' = [files EXCEPT ![st.fname] = "diagram"]
                 /\ imgs' = Append(imgs, [caption |-> st.caption,
                                          path |-> JoinPath(st.fname)])
                 /\ idx' = IF idx < NumFigs THEN idx + 1 ELSE 1
                 /\ pc' = IF idx < NumFigs THEN "generate" ELSE "sec_heading"
                 /\ UNCHANGED <<genRaised, escaped>>
            ELSE /\ genRaised' = genRaised \cup {st.gen}
                 /\ escaped' = "generator"
                 /\ pc' = "aborted"
                 /\ UNCHANGED <<files, imgs, idx>>
    /\ UNCHANGED <<doc, log, attempts, primaryRaised, retPath, insertRaised,
                   saves, savedDoc, printed, runNo, prevStructure, rfPath>>

\* ------------------------------------------------------------------------
\* create_report: for caption, path in imgs
\* ------------------------------------------------------------------------
AddEntryHeading ==
    /\ pc = "sec_heading"
    /\ idx <= Len(imgs)
    /\ doc' = Append(doc, EntryHeading(imgs[idx].caption))
    /\ pc' = "sec_picture"
    /\ UNCHANGED <<idx, imgs, files, calls, genRaised, log, attempts,
                   primaryRaised, retPath, insertRaised, escaped, saves,
                   savedDoc, printed, runNo, prevStructure, rfPath>>

InsertPicture ==
    /\ pc = "sec_picture"
    /\ LET path == imgs[idx].path IN
       \E ok \in PictureOutcomes(path) :
          /\ doc' = TryAddPicture(doc, path, ok)
          /\ insertRaised' = IF ok THEN insertRaised ELSE insertRaised \cup {path}
    /\ pc' = "sec_caption"
    /\ UNCHANGED <<idx, imgs, files, calls, genRaised, log, attempts,
                   primaryRaised, retPath, escaped, saves, savedDoc, printed,
                   runNo, prevStructure, rfPath>>

\* Variant of AddEntryCaption: the caption is appended only under a picture.
AddEntryCaptionUnderPictureOnly ==
    /\ pc = "sec_caption"
    /\ doc' = IF doc[Len(doc)].kind = "picture"
              THEN Append(doc, CaptionPara(imgs[idx].caption)) ELSE doc
    /\ idx' = IF idx < Len(imgs) THEN idx + 1 ELSE 1
    /\ pc' = IF idx < Len(imgs) THEN "sec_heading" ELSE "render"
    /\ UNCHANGED <<imgs, files, calls, genRaised, log, attempts,
                   primaryRaised, retPath, insertRaised, escaped, saves,
                   savedDoc, printed, runNo, prevStructure, rfPath>>

AddEntryCaption ==
    /\ pc = "sec_caption"
    /\ doc' = Append(doc, CaptionPara(imgs[idx].caption))
    /\ idx' = IF idx < Len(imgs) THEN idx + 1 ELSE 1
    /\ pc' = IF idx < Len(imgs) THEN "sec_heading" ELSE "render"
    /\ UNCHANGED <<imgs, files, calls, genRaised, log, attempts,
                   primaryRaised, retPath, insertRaised, escaped, saves,
                   savedDoc, printed, runNo, prevStructure, rfPath>>

\* ------------------------------------------------------------------------
\* render_formula(latex, fname), called for formula idx
\* ------------------------------------------------------------------------
\* path = os.path.join(IMG_DIR, fname)
RenderEnter ==
    /\ pc = "render"
    /\ rfPath' = JoinPath(FormulaFname[idx])
    /\ pc' = "render_try"
    /\ UNCHANGED <<idx, doc, imgs, files, calls, genRaised, log, attempts,
                   primaryRaised, retPath, insertRaised, escaped, saves,
                   savedDoc, printed, runNo, prevStructure>>

\* What a write that raises can leave at its target: nothing new, or a
\* truncated file.
AfterFailedWrite(old) == {old, "partial"}

\* The try block: mathtext typesetting and fig.savefig(path).
RenderPrimary ==
    /\ pc = "render_try"
    /\ attempts' = [attempts EXCEPT ![idx] = @ + 1]
    /\ \/ /\ files' = [files EXCEPT ![rfPath[2]] = "mathtext"]
          /\ pc' = "render_return"
          /\ UNCHANGED primaryRaised
       \/ /\ \E left \in AfterFailedWrite(files[rfPath[2]]) :
                files' = [files EXCEPT ![rfPath[2]] = left]
          /\ primaryRaised' = primaryRaised \cup {idx}
          /\ pc' = "render_except"
    /\ UNCHANGED <<idx, doc, imgs, calls, genRaised, log, retPath,
                   insertRaised, escaped, saves, savedDoc, printed, runNo,
                   prevStructure, rfPath>>

\* The path the placeholder image is saved to: img.save(path)
FallbackTarget(path) == path

\* The except block: print the warning, draw the placeholder, img.save(path).
\* img.save is not inside any try, so its exception leaves render_formula
\* and, through the unguarded call, create_report.
RenderFallback ==
    /\ pc = "render_except"
    /\ log' = Append(log, [latex |-> idx])
    /\ LET target == FallbackTarget(rfPath) IN
       \/ /\ files' = [files EXCEPT ![target[2]] = "placeholder"]
          /\ pc' = "render_return"
          /\ UNCHANGED escaped
       \/ /\ \E left \in AfterFailedWrite(files[target[2]]) :
                files' = [files EXCEPT ![target[2]] = left]
          /\ escaped' = "render_formula"
          /\ pc' = "aborted"
    /\ UNCHANGED <<idx, doc, imgs, calls, genRaised, attempts, primaryRaised,
                   retPath, insertRaised, saves, savedDoc, printed, runNo,
                   prevStructure, rfPath>>

\* return path; the caller binds it to path1 / path2.
RenderReturn ==
    /\ pc = "render_return"
    /\ retPath' = [retPath EXCEPT ![idx] = rfPath]
    /\ pc' = "formula_picture"
    /\ UNCHANGED <<idx, doc, imgs, files, calls, genRaised, log, attempts,
                   primaryRaised, insertRaised, escaped, saves, savedDoc,
                   printed, runNo, prevStructure, rfPath>>

\* ------------------------------------------------------------------------
\* create_report: the two formula sections, save, completion messages
\* ------------------------------------------------------------------------
\* Variant of InsertFormula: what has been assembled is saved before the
\* exception leaves create_report.
InsertFormulaSavingOnFailure ==
    /\ pc = "formula_picture"
    /\ LET path == retPath[idx] IN
       \E ok \in PictureOutcomes(path) :
          IF ok
          THEN /\ doc' = AddPicture(doc, path)
               /\ pc' = "formula_caption"
               /\ UNCHANGED <<insertRaised, escaped, saves, savedDoc>>
          ELSE /\ insertRaised' = insertRaised \cup {path}
               /\ escaped' = "add_picture"
               /\ pc' = "aborted"
               /\ saves' = saves + 1
               /\ savedDoc' = doc
               /\ UNCHANGED doc
    /\ UNCHANGED <<idx, imgs, files, calls, genRaised, log, attempts,
                   primaryRaised, retPath, printed, runNo, prevStructure,
                   rfPath>>

\* doc.add_picture(path1 / path2): not inside any try.
InsertFormula ==
    /\ pc = "formula_picture"
    /\ LET path == retPath[idx] IN
       \E ok \in PictureOutcomes(path) :
          IF ok
          THEN /\ doc' = AddPicture(doc, path)
               /\ pc' = "formula_caption"
               /\ UNCHANGED <<insertRaised, escaped>>
          ELSE /\ insertRaised' = insertRaised \cup {path}
               /\ escaped' = "add_picture"
               /\ pc' = "aborted"
               /\ UNCHANGED doc
    /\ UNCHANGED <<idx, imgs, files, calls, genRaised, log, attempts,
                   primaryRaised, retPath, saves, savedDoc, printed, runNo,
                   prevStructure, rfPath>>

AddFormulaCaption ==
    /\ pc = "formula_caption"
    /\ doc' = Append(doc, CaptionPara(FormulaCaption(idx)))
    /\ idx' = IF idx < NumFormulas THEN idx + 1 ELSE idx
    /\ pc' = IF idx < NumFormulas THEN "render" ELSE "save"
    /\ UNCHANGED <<imgs, files, calls, genRaised, log, attempts,
                   primaryRaised, retPath, insertRaised, escaped, saves,
                   savedDoc, printed, runNo, prevStructure, rfPath>>

\* doc.save(OUT_DOCX)
SaveDocument ==
    /\ pc = "save"
    /\ saves' = saves + 1
    /\ savedDoc' = doc
    /\ pc' = "print"
    /\ UNCHANGED <<idx, doc, imgs, files, calls, genRaised, log, attempts,
                   primaryRaised, retPath, insertRaised, escaped, printed,
                   runNo, prevStructure, rfPath>>

\* The two completion lines.
PrintCompletion ==
    /\ pc = "print"
    /\ printed' = printed + 2
    /\ pc' = "done"
    /\ UNCHANGED <<idx, doc, imgs, files, calls, genRaised, log, attempts,
                   primaryRaised, retPath, insertRaised, escaped, saves,
                   savedDoc, runNo, prevStructure, rfPath>>

\* ------------------------------------------------------------------------
\* The script is run again after a run that produced its document: a new
\* process and a new Document; the files of IMG_DIR stay.
\* ------------------------------------------------------------------------
RunAgain ==
    /\ pc = "done"
    /\ runNo < MaxRuns
    /\ runNo' = runNo + 1
    /\ prevStructure' = Structure(savedDoc)
    /\ pc' = "title"
    /\ idx' = 0
    /\ doc' = <<>>
    /\ imgs' = <<>>
    /\ calls' = <<>>
    /\ genRaised' = {}
    /\ log' = <<>>
    /\ attempts' = [k \in 1..NumFormulas |-> 0]
    /\ primaryRaised' = {}
    /\ retPath' = [k \in 1..NumFormulas |-> NoPath]
    /\ insertRaised' = {}
    /\ escaped' = "none"
    /\ saves' = 0
    /\ savedDoc' = <<>>
    /\ printed' = 0
    /\ rfPath' = NoPath
    /\ UNCHANGED files

Next ==
    \/ AddTitle
    \/ AddAuthorLine
    \/ AddReqHeading
    \/ AddParagraph
    \/ AddPageBreak
    \/ AddFigsHeading
    \/ GenerateDiagram
    \/ AddEntryHeading
    \/ InsertPicture
    \/ AddEntryCaption
    \/ RenderEnter
    \/ RenderPrimary
    \/ RenderFallback
    \/ RenderReturn
    \/ InsertFormula
    \/ AddFormulaCaption
    \/ SaveDocument
    \/ PrintCompletion
    \/ RunAgain

Spec == Init /\ [][Next]_vars

\* ------------------------------------------------------------------------
\* Auxiliary definitions of the properties
\* ------------------------------------------------------------------------
FigPath(k) == <<IMG_DIR, FigFname[k]>>

FormulaPath(k) == <<IMG_DIR, FormulaFname[k]>>

IsPrefix(a, b) == Len(a) <= Len(b) /\ SubSeq(b, 1, Len(a)) = a

Positions(d, e) == {n \in 1..Len(d) : d[n] = e}

WarningsFor(k) == Cardinality({n \in 1..Len(log) : log[n].latex = k})

\* The headings the third testable property counts.
IsListedHeading(e) ==
    \/ e.kind \in {"title", "heading3"}
    \/ e.kind = "heading1" /\ e.text = << <<"requirements", 0>> >>

ExpectedHeadings ==
    << [kind |-> "title", text |-> << <<"title", 0>> >>, path |-> NoPath],
       [kind |-> "heading1", text |-> << <<"requirements", 0>> >>, path |-> NoPath] >>
    \o [k \in 1..NumFigs |->
          [kind |-> "heading3", text |-> << <<"cn", k>> >>, path |-> NoPath]]

\* ------------------------------------------------------------------------
\* C1
\* ------------------------------------------------------------------------
\* C1: no exception ever leaves render_formula, and once it has returned for
\* a formula the destination path holds a valid image, on the primary path
\* and on the fallback path.
C1_RenderNeverRaises ==
    /\ escaped # "render_formula"
    /\ \A k \in 1..NumFormulas :
          retPath[k] # NoPath => files[retPath[k][2]] \in ValidImage

\* ------------------------------------------------------------------------
\* C2
\* ------------------------------------------------------------------------
\* C2: when the generator of an entry raised, or the file it returned could
\* not be inserted, the run is not terminated, and the document it saves holds
\* the placeholder paragraph of that entry.
C2_FailingGeneratorTolerated ==
    \A k \in 1..NumFigs :
       (k \in genRaised \/ FigPath(k) \in insertRaised) =>
          /\ pc # "aborted"
          /\ pc = "done" =>
                saves = 1 /\ Positions(savedDoc, Placeholder(FigPath(k))) # {}

\* ------------------------------------------------------------------------
\* C3
\* ------------------------------------------------------------------------
\* C3: every doc.add_picture call that raised, for a diagram or for a formula,
\* was caught: the run was not terminated by it and the document holds the
\* placeholder text for that path.
C3_InsertionFailureCaught ==
    /\ escaped # "add_picture"
    /\ \A p \in insertRaised : Positions(doc, Placeholder(p)) # {}

\* ------------------------------------------------------------------------
\* C4
\* ------------------------------------------------------------------------
\* C4: the saved document holds exactly one title, one requirements heading
\* and one heading per entry of the list, in the declared order, whatever
\* insertions failed.
C4_HeadingsInOrder ==
    saves > 0 => SelectSeq(savedDoc, IsListedHeading) = ExpectedHeadings

C4_Witness ==
    /\ pc = "done"
    /\ saves = 1
    /\ FigPath(2) \in insertRaised
    /\ FigPath(3) \notin insertRaised

C6_AppendOnly == [][runNo' = runNo => IsPrefix(doc, doc')]_vars

C6_Witness ==
    /\ pc = "sec_caption"
    /\ idx > 1
    /\ doc[Len(doc)] = Placeholder(FigPath(idx))

C8_FallbackWritesAndReturns ==
    \A k \in primaryRaised :
       ~(pc = "render_except" /\ idx = k) =>
          /\ WarningsFor(k) = 1
          /\ attempts[k] = 1
          /\ files[FormulaFname[k]] = "placeholder"
          /\ escaped # "render_formula"
          /\ ~(pc = "render_return" /\ idx = k) => retPath[k] = FormulaPath(k)

\* ------------------------------------------------------------------------
\* C9
\* ------------------------------------------------------------------------
\* C9: the generators are invoked in the order fig1..fig9, none twice; all
\* nine calls have completed and their files are written before the first
\* heading, picture or placeholder of an entry is appended; a formula is
\* rendered only after all nine sections have been appended.
C9_GeneratorsBeforeSections ==
    /\ Len(calls) <= NumFigs
    /\ \A n \in 1..Len(calls) : calls[n] = n
    /\ (\E n \in 1..Len(doc) : doc[n].kind \in {"heading3", "picture", "placeholder"}) =>
          /\ Len(calls) = NumFigs
          /\ genRaised = {}
          /\ Len(imgs) = NumFigs
          /\ \A k \in 1..NumFigs : files[FigFname[k]] = "diagram"
    /\ (rfPath # NoPath \/ \E f \in 1..NumFormulas : attempts[f] > 0) =>
          \A k \in 1..NumFigs : Positions(doc, CaptionPara(FigCaption(k))) # {}

C9_Witness ==
    /\ pc = "render_try"
    /\ idx = 2
    /\ Len(calls) = NumFigs

\* ------------------------------------------------------------------------
\* C10
\* ------------------------------------------------------------------------
\* C10: a run writes the document at most once, as the step after the caption
\* of formula 2 has been appended; the completion lines are printed only
\* after that write; a run that aborts has written no document.
C10_SaveOnceAtEnd ==
    /\ saves <= 1
    /\ saves = 1 <=> pc \in {"print", "done"}
    /\ saves = 1 =>
          /\ savedDoc = doc
          /\ doc[Len(doc)] = CaptionPara(FormulaCaption(NumFormulas))
    /\ saves = 0 => savedDoc = <<>>
    /\ printed > 0 => saves = 1 /\ pc = "done"
    /\ pc = "aborted" => saves = 0 /\ printed = 0

C10_Witness ==
    /\ pc = "aborted"
    /\ escaped = "add_picture"
    /\ idx = NumFormulas
    /\ saves = 0
====
